---- MODULE Spec2Model ----
\* A model of the Todoist REST v2 client wrapper (src/src/wrapper.rs, src/src/models.rs).
\*
\* One call of a public method is followed from its start ("idle") through the
\* single await on the transport ("awaiting") to its result ("done").
\*
\* Spec      every public method, with the sample argument values of `Picks`
\*           and every response of `Responses`;
\* SpecArgs  the create, update and filtered-list methods and has_updates()
\*           over every value of the argument structs, up to the request;
\* SpecTimed calls with the seconds of the client timeout counted;
\* SpecConc  the calls of two tasks on one client, interleaved;
\* SpecLists the list calls of two tasks, with and without a filter.
\*
\* Text is a sequence of pieces (Rust String / &str): format! is concatenation.
\* Option<T> is a sequence of length at most one: None == <<>>, Some(x) == <<x>>.
EXTENDS Integers, Sequences, FiniteSets, TLC

VARIABLES
    api_token,  \* TodoistWrapper.api_token
    pc,         \* position of the call: "idle", "awaiting" (send().await), "done"
    call,       \* the public method called, with its arguments
    request,    \* the HTTP request built by the call
    sent,       \* number of HTTP requests handed to the transport by the call
    elapsed,    \* whole seconds the pending send() has been waiting
    response,   \* the HTTP response given to handle_response
    result,     \* the TodoistResult<T> returned to the caller
    other       \* the call of another task on the same client (or a clone of it)

vars == <<api_token, pc, call, request, sent, elapsed, response, result, other>>

\* ---------------------------------------------------------------- bounds
\* Longest response body, in pieces.
MaxBody == 2
\* Longest Retry-After value built from HeaderChars, in characters.
MaxRetryAfter == 2

\* ---------------------------------------------------------------- Option
None == <<>>
Some(x) == <<x>>

\* ---------------------------------------------------------------- input sets
Tokens == {<<"0123456789abcdef">>}
Ids == {<<"42">>, <<"7">>}

\* Pieces of a response body. "ws" is a JSON whitespace character, "null" the
\* JSON literal, "obj" a JSON object that deserializes into the resource struct
\* the call is about, "arr" a JSON array of such objects, "junk" text that no
\* result type accepts (malformed JSON, or JSON of another shape).
BodyPieces == {"ws", "null", "obj", "arr", "junk"}

RECURSIVE SeqsUpTo(_, _)
SeqsUpTo(S, n) ==
    IF n = 0 THEN {<<>>}
    ELSE LET shorter == SeqsUpTo(S, n - 1)
         IN shorter \cup {Append(s, x) : s \in {t \in shorter : Len(t) = n - 1}, x \in S}

Bodies == SeqsUpTo(BodyPieces, MaxBody)

\* Status codes on both sides of every threshold of handle_response.
Statuses == {199, 200, 204, 299, 300, 400, 401, 403, 404, 418, 429, 500, 599, 600}

U64_MAX_DIGITS == <<1,8,4,4,6,7,4,4,0,7,3,7,0,9,5,5,1,6,1,5>>
DigitChars == <<"0", "1", "2", "3", "4", "5", "6", "7", "8", "9">>
Chars(digits) == [i \in 1..Len(digits) |-> DigitChars[digits[i] + 1]]

\* Values of a Retry-After header: every text over HeaderChars up to
\* MaxRetryAfter characters, and longer ones of each kind ("0x80" is a byte
\* outside visible ASCII).
HeaderChars == {"0", "7", "+", "-", ".", " "}
RetryAfterValues ==
    SeqsUpTo(HeaderChars, MaxRetryAfter) \cup
    { <<"3", "0">>, <<"0">>, <<"0", "0", "7">>, <<"+", "3", "0">>, <<"-", "1">>,
      <<"-", "0">>, <<"+">>, <<>>, <<"1", ".", "5">>, <<" ", "3", "0">>,
      <<"W", "e", "d", ",", " ", "2", "1">>, <<"3", "0x80">>,
      Chars(U64_MAX_DIGITS),
      Chars(<<1,8,4,4,6,7,4,4,0,7,3,7,0,9,5,5,1,6,1,6>>),
      Chars(<<0,1,8,4,4,6,7,4,4,0,7,3,7,0,9,5,5,1,6,1,5>>) }

Responses ==
    { [status |-> st, headers |-> [retry_after |-> None], body |-> b, readable |-> TRUE]
        : st \in Statuses, b \in Bodies }
    \cup { [status |-> st, headers |-> [retry_after |-> None], body |-> <<>>, readable |-> FALSE]
        : st \in Statuses }
    \cup { [status |-> 429, headers |-> [retry_after |-> Some(v)], body |-> b, readable |-> TRUE]
        : v \in RetryAfterValues, b \in {<<"junk">>} }
    \cup { [status |-> 429, headers |-> [retry_after |-> Some(v)], body |-> <<>>, readable |-> FALSE]
        : v \in RetryAfterValues }

\* ---------------------------------------------------------------- models.rs
\* TodoistError: one record shape for all variants; a field a variant does not
\* have is None.
Message(prefix, text) == [prefix |-> prefix, text |-> text]

Error(variant, message) ==
    [variant |-> variant, message |-> message, retry_after |-> None,
     resource_type |-> None, resource_id |-> None, field |-> None,
     status_code |-> None, endpoint |-> None]

NoError == Error("-", Message("", <<>>))

\* TodoistResult<T>
Ok(v) == [ok |-> TRUE, value |-> v, err |-> NoError]
Err(e) == [ok |-> FALSE, value |-> "-", err |-> e]
NoResult == [ok |-> FALSE, value |-> "-", err |-> NoError]

empty_response_error(endpoint, message) ==
    [Error("EmptyResponse", Message(message, <<>>)) EXCEPT !.endpoint = Some(endpoint)]

\* TodoistError::retry_after(&self) -> Option<u64>
retry_after(err) ==
    CASE err.variant = "RateLimited" -> err.retry_after
      [] OTHER -> None

\* status_code giving the status of a ServerError only.
status_code_server_only(err) ==
    CASE err.variant = "ServerError" -> Some(err.status_code[1])
      [] OTHER -> None

\* TodoistError::status_code(&self) -> Option<u16>
status_code(err) ==
    CASE err.variant = "ServerError" -> Some(err.status_code[1])
      [] err.variant = "Generic" -> err.status_code
      [] OTHER -> None

\* ---------------------------------------------------------------- conversions
IsDigit(c) == \E d \in 1..10 : DigitChars[d] = c
DigitOf(c) == (CHOOSE d \in 1..10 : DigitChars[d] = c) - 1

\* A u64 is kept as its decimal digits without leading zeros.
RECURSIVE StripZeros(_)
StripZeros(ds) == IF Len(ds) > 1 /\ ds[1] = 0 THEN StripZeros(Tail(ds)) ELSE ds

NumLeq(a, b) ==
    \/ Len(a) < Len(b)
    \/ /\ Len(a) = Len(b)
       /\ \/ a = b
          \/ \E i \in 1..Len(a) : (\A j \in 1..(i - 1) : a[j] = b[j]) /\ a[i] < b[i]

\* result.checked_mul(10)?.checked_add(digit)? on a u64
checked_mul_add(acc, d) ==
    LET r == StripZeros(Append(acc, d))
    IN IF NumLeq(r, U64_MAX_DIGITS) THEN Some(r) ELSE None

RECURSIVE parse_digits(_, _)
parse_digits(acc, s) ==
    IF s = <<>> THEN Some(acc)
    ELSE IF ~IsDigit(s[1]) THEN None
    ELSE LET r == checked_mul_add(acc, DigitOf(s[1]))
         IN IF r = None THEN None ELSE parse_digits(r[1], Tail(s))

\* parse_u64 that trims surrounding whitespace before parsing.
parse_u64_trimming(s) ==
    LET t == SelectSeq(s, LAMBDA c : c # " ")
    IN IF t = <<>> THEN None
       ELSE IF Len(t) = 1 /\ t[1] \in {"+", "-"} THEN None
       ELSE parse_digits(<<0>>, IF t[1] = "+" THEN Tail(t) ELSE t)

\* str::parse::<u64>: an optional "+", then decimal digits only; no "-", no
\* surrounding whitespace, no value above u64::MAX.
parse_u64(s) ==
    IF s = <<>> THEN None
    ELSE IF Len(s) = 1 /\ s[1] \in {"+", "-"} THEN None
    ELSE parse_digits(<<0>>, IF s[1] = "+" THEN Tail(s) ELSE s)

\* HeaderValue::to_str: fails on a byte outside visible ASCII.
to_str(v) == IF \E i \in 1..Len(v) : v[i] = "0x80" THEN None ELSE Some(v)

\* text.trim().is_empty()
trim_is_empty(text) == \A i \in 1..Len(text) : text[i] = "ws"

RECURSIVE TrimStart(_)
TrimStart(text) == IF text # <<>> /\ text[1] = "ws" THEN TrimStart(Tail(text)) ELSE text

RECURSIVE TrimEnd(_)
TrimEnd(text) ==
    IF text # <<>> /\ text[Len(text)] = "ws" THEN TrimEnd(SubSeq(text, 1, Len(text) - 1)) ELSE text

\* from_str for result types that take null as their default (an empty Vec).
from_str_null_as_default(T, text) ==
    LET value == TrimEnd(TrimStart(text))
    IN IF \/ T = "unit" /\ value = <<"null">>
          \/ T = "object" /\ value = <<"obj">>
          \/ T = "array" /\ value \in {<<"arr">>, <<"null">>}
       THEN Some(T)
       ELSE None

\* serde_json::from_str::<T>: whitespace around the one JSON value is skipped;
\* () accepts null only, a resource struct its object, Vec<resource> an array.
from_str(T, text) ==
    LET value == TrimEnd(TrimStart(text))
    IN IF \/ T = "unit" /\ value = <<"null">>
          \/ T = "object" /\ value = <<"obj">>
          \/ T = "array" /\ value = <<"arr">>
       THEN Some(T)
       ELSE None

\* .map_err(|e| TodoistError::ParseError { message: format!(prefix, e) })
parsed_or(T, text, prefix) ==
    IF from_str(T, text) = None
    THEN Err(Error("ParseError", Message(prefix, <<>>)))
    ELSE Ok(from_str(T, text)[1])

\* ---------------------------------------------------------------- wrapper.rs
TODOIST_API_BASE == <<"https://api.todoist.com/rest/v2">>

\* is_success taking every status below 400 as a success.
is_success_below_400(status) == 200 <= status /\ status <= 399

\* status.is_success(): 200..=299
is_success(status) == 200 <= status /\ status <= 299

\* headers.get("Retry-After").and_then(|v| v.to_str().ok()).and_then(|s| s.parse::<u64>().ok())
retry_after_of(headers) ==
    IF headers.retry_after = None THEN None
    ELSE IF to_str(headers.retry_after[1]) = None THEN None
    ELSE parse_u64(to_str(headers.retry_after[1])[1])

\* status_error with the server-error range written 500..599 (exclusive end).
status_error_exclusive_range(status, headers, error_text) ==
    CASE status = 401 -> Error("AuthenticationError", error_text)
      [] status = 403 -> Error("AuthorizationError", error_text)
      [] status = 404 ->
            [Error("NotFound", error_text) EXCEPT !.resource_type = Some(<<"Resource">>),
                                                  !.resource_id = None]
      [] status = 429 ->
            [Error("RateLimited", error_text) EXCEPT !.retry_after = retry_after_of(headers)]
      [] status = 400 -> [Error("ValidationError", error_text) EXCEPT !.field = None]
      [] status >= 500 /\ status < 599 ->
            [Error("ServerError", error_text) EXCEPT !.status_code = Some(status)]
      [] OTHER -> [Error("Generic", error_text) EXCEPT !.status_code = Some(status)]

\* The match on status.as_u16() of handle_response.
status_error(status, headers, error_text) ==
    CASE status = 401 -> Error("AuthenticationError", error_text)
      [] status = 403 -> Error("AuthorizationError", error_text)
      [] status = 404 ->
            [Error("NotFound", error_text) EXCEPT !.resource_type = Some(<<"Resource">>),
                                                  !.resource_id = None]
      [] status = 429 ->
            [Error("RateLimited", error_text) EXCEPT !.retry_after = retry_after_of(headers)]
      [] status = 400 -> [Error("ValidationError", error_text) EXCEPT !.field = None]
      [] status >= 500 /\ status <= 599 ->
            [Error("ServerError", error_text) EXCEPT !.status_code = Some(status)]
      [] OTHER -> [Error("Generic", error_text) EXCEPT !.status_code = Some(status)]

\* error_text_of giving the empty text when the body cannot be read.
error_text_of_empty_on_failure(resp) ==
    IF resp.readable THEN Message("", resp.body) ELSE Message("", <<>>)

\* response.text().await.unwrap_or_else(|_| format!("Unknown error occurred (HTTP {})", status))
\* (the pieces of the text are the format string and the status code)
error_text_of(resp) ==
    IF resp.readable THEN Message("", resp.body)
    ELSE Message("Unknown error occurred (HTTP {})", <<ToString(resp.status)>>)

\* is_empty_delete testing text.is_empty() without the trim.
is_empty_delete_untrimmed(http_method, status, text) == http_method = "DELETE" /\ text = <<>>

\* The DELETE branch: empty responses are expected and valid.
is_empty_delete(http_method, status, text) == http_method = "DELETE" /\ trim_is_empty(text)

\* is_empty_post without the test for status 204.
is_empty_post_ignoring_204(http_method, status, text) ==
    http_method = "POST" /\ trim_is_empty(text)

\* The POST branch: empty responses or 204 are expected and valid.
is_empty_post(http_method, status, text) ==
    http_method = "POST" /\ (status = 204 \/ trim_is_empty(text))

\* handle_response taking an empty answer to a DELETE as the null result only
\* for the endpoints of tasks.
handle_response_by_endpoint(http_method, endpoint, T, resp) ==
    IF is_success(resp.status) THEN
        IF ~resp.readable THEN
            Err(Error("NetworkError", Message("Failed to read response body: {}", <<>>)))
        ELSE IF is_empty_delete(http_method, resp.status, resp.body) /\ Head(endpoint) = "/tasks" THEN
            parsed_or(T, <<"null">>, "Failed to deserialize empty DELETE response: {}")
        ELSE IF is_empty_post(http_method, resp.status, resp.body) THEN
            parsed_or(T, <<"null">>, "Failed to deserialize empty POST response: {}")
        ELSE IF trim_is_empty(resp.body) THEN
            Err(empty_response_error(endpoint, "API returned empty response body"))
        ELSE
            parsed_or(T, resp.body, "Failed to parse response: {}")
    ELSE
        Err(status_error(resp.status, resp.headers, error_text_of(resp)))

\* handle_response taking every 2xx answer to a DELETE as the null result,
\* whatever its body.
handle_response_delete_ignoring_body(http_method, endpoint, T, resp) ==
    IF is_success(resp.status) THEN
        IF ~resp.readable THEN
            Err(Error("NetworkError", Message("Failed to read response body: {}", <<>>)))
        ELSE IF http_method = "DELETE" THEN
            parsed_or(T, <<"null">>, "Failed to deserialize empty DELETE response: {}")
        ELSE IF is_empty_post(http_method, resp.status, resp.body) THEN
            parsed_or(T, <<"null">>, "Failed to deserialize empty POST response: {}")
        ELSE IF trim_is_empty(resp.body) THEN
            Err(empty_response_error(endpoint, "API returned empty response body"))
        ELSE
            parsed_or(T, resp.body, "Failed to parse response: {}")
    ELSE
        Err(status_error(resp.status, resp.headers, error_text_of(resp)))

\* handle_response::<T>(http_method, endpoint, response)
handle_response(http_method, endpoint, T, resp) ==
    IF is_success(resp.status) THEN
        IF ~resp.readable THEN
            Err(Error("NetworkError", Message("Failed to read response body: {}", <<>>)))
        ELSE IF is_empty_delete(http_method, resp.status, resp.body) THEN
            parsed_or(T, <<"null">>, "Failed to deserialize empty DELETE response: {}")
        ELSE IF is_empty_post(http_method, resp.status, resp.body) THEN
            parsed_or(T, <<"null">>, "Failed to deserialize empty POST response: {}")
        ELSE IF trim_is_empty(resp.body) THEN
            Err(empty_response_error(endpoint, "API returned empty response body"))
        ELSE
            parsed_or(T, resp.body, "Failed to parse response: {}")
    ELSE
        Err(status_error(resp.status, resp.headers, error_text_of(resp)))

\* ---------------------------------------------------------------- arguments
Range(seq) == {seq[i] : i \in 1..Len(seq)}

\* Optional fields of the argument structs, in declaration order (models.rs).
CreateTaskOptional ==
    <<"description", "project_id", "section_id", "parent_id", "order", "priority",
      "labels", "due_string", "due_date", "due_datetime", "due_lang", "deadline_date",
      "deadline_lang", "assignee_id", "duration", "duration_unit">>
UpdateTaskFields ==
    <<"content", "description", "priority", "labels", "due_string", "due_date",
      "due_datetime", "due_lang", "deadline_date", "deadline_lang", "assignee_id",
      "duration", "duration_unit">>
CreateProjectOptional == <<"color", "parent_id", "is_favorite", "view_style">>
UpdateProjectFields == <<"name", "color", "is_favorite", "view_style">>
CreateLabelOptional == <<"color", "order", "is_favorite">>
UpdateLabelFields == <<"name", "color", "order", "is_favorite">>
CreateSectionOptional == <<"order">>
CreateCommentOptional == <<"task_id", "project_id", "attachment">>
TaskFilterOptional == <<"lang", "limit", "cursor">>
ProjectFilterFields == <<"limit", "cursor">>
LabelFilterFields == <<"limit", "cursor">>
SectionFilterFields == <<"project_id", "limit", "cursor">>
CommentFilterFields == <<"task_id", "project_id", "limit", "cursor">>

\* A value of each field's type.
ValueOf(f) ==
    CASE f \in {"order", "priority", "duration"} -> 1
      [] f = "limit" -> 10
      [] f = "is_favorite" -> TRUE
      [] f = "labels" -> <<<<"home">>>>
      [] f = "attachment" ->
            [file_name |-> <<"a.png">>, file_type |-> <<"image/png">>,
             file_url |-> <<"https://example.org/a.png">>, resource_type |-> <<"file">>]
      [] OTHER -> <<"x">>

\* Strings of a mandatory String field; "" is what Default gives.
Strings == {<<>>, <<"buy milk">>}

\* The struct whose optional fields `set` are Some and whose others are None,
\* with the mandatory fields `req` (a record).
ArgsOf(req, optional, set) ==
    [f \in DOMAIN req \cup Range(optional) |->
        IF f \in DOMAIN req THEN req[f]
        ELSE IF f \in set THEN Some(ValueOf(f)) ELSE None]

\* The field sets a call is tried with: none set, each alone, all set.
Picks(optional) == {{}, Range(optional)} \cup {{f} : f \in Range(optional)}

NoReq == [f \in {} |-> <<>>]
NoArgs == ArgsOf(NoReq, <<>>, {})

\* body_of serializing the whole struct: an absent field gives a key with null.
body_of_null_for_absent(args, mandatory, optional) ==
    [k \in Range(mandatory) \cup Range(optional) |-> args[k]]

\* body.insert(k, to_value(..)) for each mandatory field, and for each optional
\* field under `if let Some(..)`; then serde_json::to_value(&body).
body_of(args, mandatory, optional) ==
    [k \in Range(mandatory) \cup {f \in Range(optional) : args[f] # None} |->
        IF k \in Range(mandatory) THEN args[k] ELSE args[k][1]]

\* i32::to_string
RECURSIVE nat_to_string(_)
nat_to_string(n) ==
    IF n < 10 THEN <<DigitChars[n + 1]>>
    ELSE Append(nat_to_string(n \div 10), DigitChars[(n % 10) + 1])
to_string(n) == IF n < 0 THEN <<"-">> \o nat_to_string(0 - n) ELSE nat_to_string(n)

\* query_params.push((k, v)) under `if let Some(..)`, in the order of `fields`;
\* limit is an i32 and is pushed as limit.to_string().
RECURSIVE push_params(_, _)
push_params(args, fields) ==
    IF fields = <<>> THEN <<>>
    ELSE LET f == Head(fields)
             rest == push_params(args, Tail(fields))
         IN IF args[f] = None THEN rest
            ELSE <<[k |-> <<f>>, v |-> IF f = "limit" THEN to_string(args[f][1]) ELSE args[f][1]]>>
                 \o rest

\* query_params.iter().map(|(k, v)| format!("{}={}", k, v)).collect().join("&")
RECURSIVE query_string(_)
query_string(query_params) ==
    IF query_params = <<>> THEN <<>>
    ELSE LET kv == Head(query_params).k \o <<"=">> \o Head(query_params).v
         IN IF Len(query_params) = 1 THEN kv
            ELSE kv \o <<"&">> \o query_string(Tail(query_params))

\* ---------------------------------------------------------------- requests
NoCall == [op |-> "-", id |-> None, args |-> NoArgs]
NoRequest ==
    [method |-> "-", url |-> <<>>, endpoint |-> <<>>, headers |-> {}, body |-> None, T |-> "-"]
NoResponse == [status |-> 0, headers |-> [retry_after |-> None], body |-> <<>>, readable |-> FALSE]

Authorization == <<"Authorization", <<"Bearer ">> \o api_token>>
ContentType == <<"Content-Type", <<"application/json">>>>

\* The request is handed to the transport: .send().await
Send(req) ==
    /\ request' = req
    /\ sent' = sent + 1
    /\ elapsed' = 0
    /\ pc' = "awaiting"

\* make_get_request_with_params appending "?" and the query string even when
\* there are no query parameters.
make_get_request_with_params_always_query(endpoint, query_params, T) ==
    LET url == TODOIST_API_BASE \o endpoint \o <<"?">> \o query_string(query_params)
    IN Send([method |-> "GET", url |-> url, endpoint |-> endpoint,
             headers |-> {Authorization}, body |-> None, T |-> T])

make_get_request_with_params(endpoint, query_params, T) ==
    LET url == TODOIST_API_BASE \o endpoint
               \o (IF query_params # <<>> THEN <<"?">> \o query_string(query_params) ELSE <<>>)
    IN Send([method |-> "GET", url |-> url, endpoint |-> endpoint,
             headers |-> {Authorization}, body |-> None, T |-> T])

make_get_request(endpoint, T) == make_get_request_with_params(endpoint, <<>>, T)

\* make_post_request attaching a JSON body ({} for None) to every POST.
make_post_request_always_json(endpoint, body, T) ==
    Send([method |-> "POST", url |-> TODOIST_API_BASE \o endpoint, endpoint |-> endpoint,
          headers |-> {Authorization, ContentType},
          body |-> IF body = None THEN Some(NoReq) ELSE body, T |-> T])

make_post_request(endpoint, body, T) ==
    Send([method |-> "POST", url |-> TODOIST_API_BASE \o endpoint, endpoint |-> endpoint,
          headers |-> {Authorization, ContentType}, body |-> body, T |-> T])

\* make_delete_request leaving out the Authorization header.
make_delete_request_unauthenticated(endpoint, T) ==
    Send([method |-> "DELETE", url |-> TODOIST_API_BASE \o endpoint, endpoint |-> endpoint,
          headers |-> {}, body |-> None, T |-> T])

make_delete_request(endpoint, T) ==
    Send([method |-> "DELETE", url |-> TODOIST_API_BASE \o endpoint, endpoint |-> endpoint,
          headers |-> {Authorization}, body |-> None, T |-> T])

\* A public method is entered with its arguments.
Enter(op, id, args) ==
    /\ pc = "idle"
    /\ call' = [op |-> op, id |-> id, args |-> args]
    /\ UNCHANGED <<api_token, response, result, other>>

\* ---------------------------------------------------------------- public methods
get_projects ==
    /\ Enter("get_projects", None, NoArgs)
    /\ make_get_request(<<"/projects">>, "array")

get_projects_filtered_with(argset) ==
    /\ pc = "idle"
    /\ \E args \in argset :
        /\ Enter("get_projects_filtered", None, args)
        /\ make_get_request_with_params(<<"/projects">>, push_params(args, ProjectFilterFields), "array")

get_projects_filtered ==
    get_projects_filtered_with({ArgsOf(NoReq, ProjectFilterFields, set) : set \in Picks(ProjectFilterFields)})

get_project ==
    \E project_id \in Ids :
        /\ Enter("get_project", Some(project_id), NoArgs)
        /\ make_get_request(<<"/projects", "/">> \o project_id, "object")

create_project_with(argset) ==
    /\ pc = "idle"
    /\ \E args \in argset :
        /\ Enter("create_project", None, args)
        /\ make_post_request(<<"/projects">>, Some(body_of(args, <<"name">>, CreateProjectOptional)), "object")

create_project ==
    create_project_with({ArgsOf([name |-> name], CreateProjectOptional, set) : name \in Strings \ {<<>>}, set \in Picks(CreateProjectOptional)})

update_project_with(argset) ==
    /\ pc = "idle"
    /\ \E project_id \in Ids, args \in argset :
        /\ Enter("update_project", Some(project_id), args)
        /\ make_post_request(<<"/projects", "/">> \o project_id,
                             Some(body_of(args, <<>>, UpdateProjectFields)), "object")

update_project ==
    update_project_with({ArgsOf(NoReq, UpdateProjectFields, set) : set \in Picks(UpdateProjectFields)})

delete_project ==
    \E project_id \in Ids :
        /\ Enter("delete_project", Some(project_id), NoArgs)
        /\ make_delete_request(<<"/projects", "/">> \o project_id, "unit")

get_tasks ==
    /\ Enter("get_tasks", None, NoArgs)
    /\ make_get_request(<<"/tasks">>, "array")

get_tasks_for_project ==
    \E project_id \in Ids :
        /\ Enter("get_tasks_for_project", Some(project_id), NoArgs)
        /\ make_get_request(<<"/tasks", "?", "project_id", "=">> \o project_id, "array")

get_task ==
    \E task_id \in Ids :
        /\ Enter("get_task", Some(task_id), NoArgs)
        /\ make_get_request(<<"/tasks", "/">> \o task_id, "object")

get_tasks_by_filter_with(argset) ==
    /\ pc = "idle"
    /\ \E args \in argset :
        /\ Enter("get_tasks_by_filter", None, args)
        /\ make_get_request_with_params(
                <<"/tasks">>,
                <<[k |-> <<"query">>, v |-> args.query]>> \o push_params(args, TaskFilterOptional),
                "array")

get_tasks_by_filter ==
    get_tasks_by_filter_with({ArgsOf([query |-> <<"today">>], TaskFilterOptional, set) : set \in Picks(TaskFilterOptional)})

create_task_with(argset) ==
    /\ pc = "idle"
    /\ \E args \in argset :
        /\ Enter("create_task", None, args)
        /\ make_post_request(<<"/tasks">>, Some(body_of(args, <<"content">>, CreateTaskOptional)), "object")

create_task ==
    create_task_with({ArgsOf([content |-> name], CreateTaskOptional, set) : name \in Strings \ {<<>>}, set \in Picks(CreateTaskOptional)})

update_task_with(argset) ==
    /\ pc = "idle"
    /\ \E task_id \in Ids, args \in argset :
        /\ Enter("update_task", Some(task_id), args)
        /\ make_post_request(<<"/tasks", "/">> \o task_id,
                             Some(body_of(args, <<>>, UpdateTaskFields)), "object")

update_task ==
    update_task_with({ArgsOf(NoReq, UpdateTaskFields, set) : set \in Picks(UpdateTaskFields)})

complete_task ==
    \E task_id \in Ids :
        /\ Enter("complete_task", Some(task_id), NoArgs)
        /\ make_post_request(<<"/tasks", "/">> \o task_id \o <<"/close">>, None, "unit")

reopen_task ==
    \E task_id \in Ids :
        /\ Enter("reopen_task", Some(task_id), NoArgs)
        /\ make_post_request(<<"/tasks", "/">> \o task_id \o <<"/reopen">>, None, "unit")

delete_task ==
    \E task_id \in Ids :
        /\ Enter("delete_task", Some(task_id), NoArgs)
        /\ make_delete_request(<<"/tasks", "/">> \o task_id, "unit")

get_labels ==
    /\ Enter("get_labels", None, NoArgs)
    /\ make_get_request(<<"/labels">>, "array")

get_labels_filtered_with(argset) ==
    /\ pc = "idle"
    /\ \E args \in argset :
        /\ Enter("get_labels_filtered", None, args)
        /\ make_get_request_with_params(<<"/labels">>, push_params(args, LabelFilterFields), "array")

get_labels_filtered ==
    get_labels_filtered_with({ArgsOf(NoReq, LabelFilterFields, set) : set \in Picks(LabelFilterFields)})

get_label ==
    \E label_id \in Ids :
        /\ Enter("get_label", Some(label_id), NoArgs)
        /\ make_get_request(<<"/labels", "/">> \o label_id, "object")

create_label_with(argset) ==
    /\ pc = "idle"
    /\ \E args \in argset :
        /\ Enter("create_label", None, args)
        /\ make_post_request(<<"/labels">>, Some(body_of(args, <<"name">>, CreateLabelOptional)), "object")

create_label ==
    create_label_with({ArgsOf([name |-> name], CreateLabelOptional, set) : name \in Strings \ {<<>>}, set \in Picks(CreateLabelOptional)})

update_label_with(argset) ==
    /\ pc = "idle"
    /\ \E label_id \in Ids, args \in argset :
        /\ Enter("update_label", Some(label_id), args)
        /\ make_post_request(<<"/labels", "/">> \o label_id,
                             Some(body_of(args, <<>>, UpdateLabelFields)), "object")

update_label ==
    update_label_with({ArgsOf(NoReq, UpdateLabelFields, set) : set \in Picks(UpdateLabelFields)})

delete_label ==
    \E label_id \in Ids :
        /\ Enter("delete_label", Some(label_id), NoArgs)
        /\ make_delete_request(<<"/labels", "/">> \o label_id, "unit")

get_sections ==
    /\ Enter("get_sections", None, NoArgs)
    /\ make_get_request(<<"/sections">>, "array")

get_sections_filtered_with(argset) ==
    /\ pc = "idle"
    /\ \E args \in argset :
        /\ Enter("get_sections_filtered", None, args)
        /\ make_get_request_with_params(<<"/sections">>, push_params(args, SectionFilterFields), "array")

get_sections_filtered ==
    get_sections_filtered_with({ArgsOf(NoReq, SectionFilterFields, set) : set \in Picks(SectionFilterFields)})

get_section ==
    \E section_id \in Ids :
        /\ Enter("get_section", Some(section_id), NoArgs)
        /\ make_get_request(<<"/sections", "/">> \o section_id, "object")

create_section_with(argset) ==
    /\ pc = "idle"
    /\ \E args \in argset :
        /\ Enter("create_section", None, args)
        /\ make_post_request(<<"/sections">>, Some(body_of(args, <<"name", "project_id">>, CreateSectionOptional)), "object")

create_section ==
    create_section_with({ArgsOf([name |-> name, project_id |-> <<"7">>], CreateSectionOptional, set) : name \in Strings \ {<<>>}, set \in Picks(CreateSectionOptional)})

update_section_with(argset) ==
    /\ pc = "idle"
    /\ \E section_id \in Ids, args \in argset :
        /\ Enter("update_section", Some(section_id), args)
        /\ make_post_request(<<"/sections", "/">> \o section_id,
                             Some(body_of(args, <<"name">>, <<>>)), "object")

update_section ==
    update_section_with({ArgsOf([name |-> name], <<>>, {}) : name \in Strings})

delete_section ==
    \E section_id \in Ids :
        /\ Enter("delete_section", Some(section_id), NoArgs)
        /\ make_delete_request(<<"/sections", "/">> \o section_id, "unit")

get_comments ==
    /\ Enter("get_comments", None, NoArgs)
    /\ make_get_request(<<"/comments">>, "array")

get_comments_filtered_with(argset) ==
    /\ pc = "idle"
    /\ \E args \in argset :
        /\ Enter("get_comments_filtered", None, args)
        /\ make_get_request_with_params(<<"/comments">>, push_params(args, CommentFilterFields), "array")

get_comments_filtered ==
    get_comments_filtered_with({ArgsOf(NoReq, CommentFilterFields, set) : set \in Picks(CommentFilterFields)})

get_comment ==
    \E comment_id \in Ids :
        /\ Enter("get_comment", Some(comment_id), NoArgs)
        /\ make_get_request(<<"/comments", "/">> \o comment_id, "object")

create_comment_with(argset) ==
    /\ pc = "idle"
    /\ \E args \in argset :
        /\ Enter("create_comment", None, args)
        /\ make_post_request(<<"/comments">>, Some(body_of(args, <<"content">>, CreateCommentOptional)), "object")

create_comment ==
    create_comment_with({ArgsOf([content |-> name], CreateCommentOptional, set) : name \in Strings \ {<<>>}, set \in Picks(CreateCommentOptional)})

update_comment_with(argset) ==
    /\ pc = "idle"
    /\ \E comment_id \in Ids, args \in argset :
        /\ Enter("update_comment", Some(comment_id), args)
        /\ make_post_request(<<"/comments", "/">> \o comment_id,
                             Some(body_of(args, <<"content">>, <<>>)), "object")

update_comment ==
    update_comment_with({ArgsOf([content |-> content], <<>>, {}) : content \in Strings})

delete_comment ==
    \E comment_id \in Ids :
        /\ Enter("delete_comment", Some(comment_id), NoArgs)
        /\ make_delete_request(<<"/comments", "/">> \o comment_id, "unit")

\* ---------------------------------------------------------------- the await
\* Client::builder().timeout(Duration::from_secs(10))
TIMEOUT_SECS == 10

\* What makes .send() fail: the connection fails while the send is pending, or
\* the request has been pending for the whole timeout.
SendErrors == IF elapsed = TIMEOUT_SECS THEN {"operation timed out"} ELSE {"connection error"}

\* A second passes while the send is pending.
tick ==
    /\ pc = "awaiting"
    /\ elapsed < TIMEOUT_SECS
    /\ elapsed' = elapsed + 1
    /\ UNCHANGED <<api_token, pc, call, request, sent, response, result, other>>

\* send_failed sending the request again instead of returning the error.
send_failed_retrying ==
    /\ pc = "awaiting"
    /\ sent < 3
    /\ sent' = sent + 1
    /\ elapsed' = 0
    /\ UNCHANGED <<api_token, pc, call, request, response, result, other>>

\* send_failed reporting the failure as a Generic error.
send_failed_as_generic ==
    /\ pc = "awaiting"
    /\ \E e \in SendErrors :
        result' = Err(Error("Generic", Message("Failed to send request: {}", <<e>>)))
    /\ pc' = "done"
    /\ elapsed' = 0
    /\ UNCHANGED <<api_token, call, request, sent, response, other>>

\* .send().await fails: map_err(|e| NetworkError { "Failed to send request: {}" })?
send_failed ==
    /\ pc = "awaiting"
    /\ \E e \in SendErrors :
        result' = Err(Error("NetworkError", Message("Failed to send request: {}", <<e>>)))
    /\ pc' = "done"
    /\ elapsed' = 0
    /\ UNCHANGED <<api_token, call, request, sent, response, other>>

\* response_received_from with one response buffer shared by the calls of the
\* client: the response handled is the last one any call received.
response_received_from_shared_buffer(responses) ==
    /\ pc = "awaiting"
    /\ elapsed < TIMEOUT_SECS
    /\ \E resp \in responses :
        /\ response' = resp
        /\ result' = handle_response(request.method, request.endpoint, request.T,
                                     IF other.pc = "done" /\ other.response # NoResponse
                                     THEN other.response ELSE resp)
    /\ pc' = "done"
    /\ elapsed' = 0
    /\ UNCHANGED <<api_token, call, request, sent, other>>

\* .send().await gives a response, one of `responses`, before the timeout:
\* self.handle_response(method, endpoint, response).await
response_received_from(responses) ==
    /\ pc = "awaiting"
    /\ elapsed < TIMEOUT_SECS
    /\ \E resp \in responses :
        /\ response' = resp
        /\ result' = handle_response(request.method, request.endpoint, request.T, resp)
    /\ pc' = "done"
    /\ elapsed' = 0
    /\ UNCHANGED <<api_token, call, request, sent, other>>

response_received == response_received_from(Responses)

\* The result is back with the caller; the task is ready for its next call.
call_returns ==
    /\ pc = "done"
    /\ pc' = "idle"
    /\ call' = NoCall
    /\ request' = NoRequest
    /\ sent' = 0
    /\ response' = NoResponse
    /\ result' = NoResult
    /\ UNCHANGED <<api_token, elapsed, other>>

\* The call of a task that is not running: all that a call owns.
Suspended(p, c, rq, n, t, rs, r) ==
    [pc |-> p, call |-> c, request |-> rq, sent |-> n, elapsed |-> t, response |-> rs, result |-> r]

NoOther == Suspended("idle", NoCall, NoRequest, 0, 0, NoResponse, NoResult)

\* TodoistWrapper::new(api_token)
Init ==
    /\ api_token \in Tokens
    /\ pc = "idle"
    /\ call = NoCall
    /\ request = NoRequest
    /\ sent = 0
    /\ elapsed = 0
    /\ response = NoResponse
    /\ result = NoResult
    /\ other = NoOther

Next ==
    \/ get_projects
    \/ get_projects_filtered
    \/ get_project
    \/ create_project
    \/ update_project
    \/ delete_project
    \/ get_tasks
    \/ get_tasks_for_project
    \/ get_task
    \/ get_tasks_by_filter
    \/ create_task
    \/ update_task
    \/ complete_task
    \/ reopen_task
    \/ delete_task
    \/ get_labels
    \/ get_labels_filtered
    \/ get_label
    \/ create_label
    \/ update_label
    \/ delete_label
    \/ get_sections
    \/ get_sections_filtered
    \/ get_section
    \/ create_section
    \/ update_section
    \/ delete_section
    \/ get_comments
    \/ get_comments_filtered
    \/ get_comment
    \/ create_comment
    \/ update_comment
    \/ delete_comment
    \/ send_failed
    \/ response_received
    \/ call_returns

Spec == Init /\ [][Next]_vars

\* ---------------------------------------------------------------- argument structs
\* Every value of a struct over the sample field values: the mandatory fields
\* from `reqs`, each optional field None or Some.
Structs(reqs, optional) ==
    {ArgsOf(req, optional, set) : req \in reqs, set \in SUBSET Range(optional)}

Named(field) == {[f \in {field} |-> s] : s \in Strings}

CreateTaskArgs == Structs({[content |-> <<"buy milk">>]}, CreateTaskOptional)
UpdateTaskArgs == Structs({NoReq}, UpdateTaskFields)
CreateProjectArgs == Structs(Named("name"), CreateProjectOptional)
UpdateProjectArgs == Structs({NoReq}, UpdateProjectFields)
CreateLabelArgs == Structs(Named("name"), CreateLabelOptional)
UpdateLabelArgs == Structs({NoReq}, UpdateLabelFields)
CreateSectionArgs ==
    Structs({[name |-> s, project_id |-> p] : s \in Strings, p \in Ids}, CreateSectionOptional)
UpdateSectionArgs == Structs(Named("name"), <<>>)
CreateCommentArgs == Structs(Named("content"), CreateCommentOptional)
UpdateCommentArgs == Structs(Named("content"), <<>>)

\* impl UpdateTaskArgs { pub fn has_updates(&self) -> bool }
UpdateTaskArgs_has_updates(args) ==
    \/ args.content # None
    \/ args.description # None
    \/ args.priority # None
    \/ args.labels # None
    \/ args.due_string # None
    \/ args.due_date # None
    \/ args.due_datetime # None
    \/ args.due_lang # None
    \/ args.deadline_date # None
    \/ args.deadline_lang # None
    \/ args.assignee_id # None
    \/ args.duration # None
    \/ args.duration_unit # None

\* impl UpdateProjectArgs { pub fn has_updates(&self) -> bool }
UpdateProjectArgs_has_updates(args) ==
    \/ args.name # None
    \/ args.color # None
    \/ args.is_favorite # None
    \/ args.view_style # None

\* impl UpdateLabelArgs { pub fn has_updates(&self) -> bool }
UpdateLabelArgs_has_updates(args) ==
    \/ args.name # None
    \/ args.color # None
    \/ args.order # None
    \/ args.is_favorite # None

\* impl UpdateCommentArgs { pub fn has_updates(&self) -> bool }: !self.content.is_empty()
UpdateCommentArgs_has_updates(args) == args.content # <<>>

\* The Update*Args types with an impl block that defines has_updates.
HasUpdatesImpls == {"UpdateTaskArgs", "UpdateProjectArgs", "UpdateLabelArgs", "UpdateCommentArgs"}

\* The argument type in the signature of each update method.
ArgsTypeOf(op) ==
    CASE op = "update_task" -> "UpdateTaskArgs"
      [] op = "update_project" -> "UpdateProjectArgs"
      [] op = "update_label" -> "UpdateLabelArgs"
      [] op = "update_section" -> "UpdateSectionArgs"
      [] op = "update_comment" -> "UpdateCommentArgs"

\* A caller asks args.has_updates() of a value of `type`, for which `reports`
\* gives what the impl of the type returns; no request is made.
has_updates(type, reports) ==
    /\ pc = "idle"
    /\ type \in HasUpdatesImpls
    /\ \E args \in DOMAIN reports :
        /\ call' = [op |-> "has_updates", id |-> Some(<<type>>), args |-> args]
        /\ result' = Ok(reports[args])
    /\ pc' = "done"
    /\ UNCHANGED <<api_token, request, sent, elapsed, response, other>>

\* Values of the filter fields. A Todoist filter query joins its terms with
\* "&" or "|"; a cursor is an opaque token of the server.
Opt(S) == {None} \cup {Some(x) : x \in S}
Queries == {<<"today">>, <<"today", " ", "&", " ", "p1">>, <<>>}
Langs == {<<"en">>}
Limits == {10, 0, 0 - 1}
Cursors == {<<"abc">>, <<"YWJj", "=">>}

TaskFilterArgs ==
    {[query |-> q, lang |-> l, limit |-> n, cursor |-> c]
        : q \in Queries, l \in Opt(Langs), n \in Opt(Limits), c \in Opt(Cursors)}
ProjectFilterArgs == {[limit |-> n, cursor |-> c] : n \in Opt(Limits), c \in Opt(Cursors)}
LabelFilterArgs == {[limit |-> n, cursor |-> c] : n \in Opt(Limits), c \in Opt(Cursors)}
SectionFilterArgs ==
    {[project_id |-> p, limit |-> n, cursor |-> c]
        : p \in Opt(Ids), n \in Opt(Limits), c \in Opt(Cursors)}
CommentFilterArgs ==
    {[task_id |-> t, project_id |-> p, limit |-> n, cursor |-> c]
        : t \in Opt(Ids), p \in Opt(Ids), n \in Opt(Limits), c \in Opt(Cursors)}

\* Calls with every value of the argument structs: what each create, update
\* and filtered-list method puts into its request.
NextArgs ==
    \/ get_projects_filtered_with(ProjectFilterArgs)
    \/ get_tasks_by_filter_with(TaskFilterArgs)
    \/ get_labels_filtered_with(LabelFilterArgs)
    \/ get_sections_filtered_with(SectionFilterArgs)
    \/ get_comments_filtered_with(CommentFilterArgs)
    \/ create_project_with(CreateProjectArgs)
    \/ update_project_with(UpdateProjectArgs)
    \/ create_task_with(CreateTaskArgs)
    \/ update_task_with(UpdateTaskArgs)
    \/ create_label_with(CreateLabelArgs)
    \/ update_label_with(UpdateLabelArgs)
    \/ create_section_with(CreateSectionArgs)
    \/ update_section_with(UpdateSectionArgs)
    \/ create_comment_with(CreateCommentArgs)
    \/ update_comment_with(UpdateCommentArgs)
    \/ has_updates("UpdateTaskArgs",
                   [args \in UpdateTaskArgs |-> UpdateTaskArgs_has_updates(args)])
    \/ has_updates("UpdateProjectArgs",
                   [args \in UpdateProjectArgs |-> UpdateProjectArgs_has_updates(args)])
    \/ has_updates("UpdateLabelArgs",
                   [args \in UpdateLabelArgs |-> UpdateLabelArgs_has_updates(args)])
    \/ has_updates("UpdateCommentArgs",
                   [args \in UpdateCommentArgs |-> UpdateCommentArgs_has_updates(args)])

SpecArgs == Init /\ [][NextArgs]_vars

\* ---------------------------------------------------------------- time
\* Calls through each of the three request helpers, with the seconds that pass
\* while the send is pending.
NextTimed ==
    \/ get_tasks
    \/ get_task
    \/ create_project
    \/ complete_task
    \/ delete_task
    \/ tick
    \/ send_failed
    \/ response_received
    \/ call_returns

SpecTimed == Init /\ [][NextTimed]_vars

\* ---------------------------------------------------------------- concurrency
\* The executor runs the other task: its call comes into the call variables
\* and the call that was running is set aside. Both use the same client
\* (&self, or a clone: the same api_token and the same reqwest Client).
switch ==
    /\ other' = Suspended(pc, call, request, sent, elapsed, response, result)
    /\ pc' = other.pc
    /\ call' = other.call
    /\ request' = other.request
    /\ sent' = other.sent
    /\ elapsed' = other.elapsed
    /\ response' = other.response
    /\ result' = other.result
    /\ UNCHANGED api_token

\* Responses of the kinds that the success and the error branch tell apart.
ConcResponses ==
    {r \in Responses : r.status \in {200, 204, 404} /\ r.body \in {<<>>, <<"obj">>, <<"null">>}}

\* Two tasks, each making calls through GET, POST and DELETE, interleaved at
\* every step.
NextConc ==
    \/ get_task
    \/ create_project
    \/ complete_task
    \/ delete_task
    \/ delete_project
    \/ send_failed
    \/ response_received_from(ConcResponses)
    \/ call_returns
    \/ switch

SpecConc == Init /\ [][NextConc]_vars

\* ---------------------------------------------------------------- lists
\* Responses to a list call: an array or nothing, a success or an error, a
\* body that can be read or not.
ListResponses ==
    {r \in Responses : r.status \in {200, 404} /\ r.body \in {<<>>, <<"arr">>}}

\* Two tasks, each listing a resource with or without a filter.
NextLists ==
    \/ get_projects
    \/ get_projects_filtered
    \/ get_labels
    \/ get_labels_filtered
    \/ get_sections
    \/ get_sections_filtered
    \/ get_comments
    \/ get_comments_filtered
    \/ send_failed
    \/ response_received_from(ListResponses)
    \/ call_returns
    \/ switch

SpecLists == Init /\ [][NextLists]_vars

\* ================================================================ properties
\* The call has returned after handle_response classified a response.
Answered == pc = "done" /\ response # NoResponse
\* The response body was read as text, and the text is `response.body`.
BodyRead == response.readable
Blank(text) == \A i \in 1..Len(text) : text[i] = "ws"
Success2xx == response.status \in 200..299

UpdateOps == {"update_task", "update_project", "update_label", "update_section", "update_comment"}
GetByIdOps == {"get_project", "get_task", "get_label", "get_section", "get_comment"}
NoFieldsSet(args) == \A f \in DOMAIN args : args[f] = <<>>

\* ---------------------------------------------------------------- C1
\* C1: an update called with no field set fails with ValidationError and
\* issues no HTTP request.
C1_EmptyUpdateRejectedLocally ==
    (pc \in {"awaiting", "done"} /\ call.op \in UpdateOps /\ NoFieldsSet(call.args))
        => /\ sent = 0
           /\ pc = "done"
           /\ result.err.variant = "ValidationError"

\* ---------------------------------------------------------------- C2
\* The variant, and the status code carried, that the claim gives for a status.
VariantFor(status) ==
    CASE status = 401 -> "AuthenticationError"
      [] status = 403 -> "AuthorizationError"
      [] status = 404 -> "NotFound"
      [] status = 429 -> "RateLimited"
      [] status = 400 -> "ValidationError"
      [] status \in 500..599 -> "ServerError"
      [] OTHER -> "Generic"
StatusCarried(status) ==
    IF status \in {400, 401, 403, 404, 429} THEN None ELSE Some(status)

ErrorIsByStatus ==
    /\ ~result.ok
    /\ result.err.variant = VariantFor(response.status)
    /\ result.err.status_code = StatusCarried(response.status)
    /\ result.err.field = None

\* C2 as stated: for every non-2xx response the error variant is decided by
\* the status code alone and the message is the raw response body text.
C2_MessageAlwaysRawBody ==
    (Answered /\ ~Success2xx)
        => /\ ErrorIsByStatus
           /\ result.err.message = Message("", response.body)

\* C2 amended: for every non-2xx response the error variant is decided by the
\* status code alone; the message is the raw response body text when the body
\* is read, and the synthetic "Unknown error occurred (HTTP <status>)" text
\* when reading the body fails.
C2_ErrorVariantByStatus ==
    (Answered /\ ~Success2xx)
        => /\ ErrorIsByStatus
           /\ BodyRead => result.err.message = Message("", response.body)
           /\ ~BodyRead => /\ result.err.message.prefix = "Unknown error occurred (HTTP {})"
                           /\ result.err.message.text = <<ToString(response.status)>>

C2_Witness ==
    /\ Answered
    /\ response.status = 599
    /\ BodyRead
    /\ response.body = <<"junk">>
    /\ result.err.variant = "ServerError"
    /\ result.err.message.text = <<"junk">>

\* ---------------------------------------------------------------- C3
ResourceOf(op) ==
    CASE op = "get_project" -> <<"Project">>
      [] op = "get_task" -> <<"Task">>
      [] op = "get_label" -> <<"Label">>
      [] op = "get_section" -> <<"Section">>
      [] op = "get_comment" -> <<"Comment">>
      [] OTHER -> <<"Resource">>

\* C3: a 404 answer to a get-by-id call is a NotFound error that carries the
\* name of the requested resource type and the requested id.
C3_NotFoundNamesResourceAndId ==
    (Answered /\ call.op \in GetByIdOps /\ response.status = 404)
        => /\ result.err.variant = "NotFound"
           /\ result.err.resource_type = Some(ResourceOf(call.op))
           /\ result.err.resource_id = call.id

\* ---------------------------------------------------------------- C4
RetryAfterHeader == response.headers.retry_after
\* The header value is a decimal integer: an optional "+" and one or more digits.
Unsigned(h) == IF h # <<>> /\ h[1] = "+" THEN Tail(h) ELSE h
IsNonNegativeInteger(h) == Unsigned(h) # <<>> /\ \A i \in 1..Len(Unsigned(h)) : IsDigit(Unsigned(h)[i])
\* Its value, as decimal digits without leading zeros.
IntegerValue(h) == StripZeros([i \in 1..Len(Unsigned(h)) |-> DigitOf(Unsigned(h)[i])])
FitsU64(n) == NumLeq(n, U64_MAX_DIGITS)

\* C4 as stated: on a 429, retry_after is Some(n) exactly when the Retry-After
\* header is present and its value is a non-negative integer n, None otherwise.
C4_RetryAfterIffNonNegativeInteger ==
    (Answered /\ response.status = 429)
        => /\ result.err.variant = "RateLimited"
           /\ result.err.retry_after =
                IF RetryAfterHeader # None /\ IsNonNegativeInteger(RetryAfterHeader[1])
                THEN Some(IntegerValue(RetryAfterHeader[1]))
                ELSE None

\* C4 amended: on a 429, retry_after is Some(n) exactly when the Retry-After
\* header is present and its value is a non-negative decimal integer n that
\* fits an unsigned 64-bit integer (n <= 18446744073709551615); None otherwise,
\* also for an integer above that.
C4_RetryAfterIffU64 ==
    (Answered /\ response.status = 429)
        => /\ result.err.variant = "RateLimited"
           /\ result.err.retry_after =
                IF /\ RetryAfterHeader # None
                   /\ IsNonNegativeInteger(RetryAfterHeader[1])
                   /\ FitsU64(IntegerValue(RetryAfterHeader[1]))
                THEN Some(IntegerValue(RetryAfterHeader[1]))
                ELSE None

C4_Witness ==
    /\ Answered
    /\ response.status = 429
    /\ RetryAfterHeader = Some(<<"3", "0">>)
    /\ result.err.retry_after = Some(<<3, 0>>)

\* ---------------------------------------------------------------- C5
\* C5: a DELETE answered 2xx with an empty or whitespace-only body returns the
\* no-value success, never ParseError or EmptyResponse.
C5_DeleteEmptyBodyIsSuccess ==
    (Answered /\ request.method = "DELETE" /\ Success2xx /\ BodyRead /\ Blank(response.body))
        => /\ result = Ok("unit")
           /\ result.err.variant \notin {"ParseError", "EmptyResponse"}

C5_Witness ==
    /\ Answered
    /\ call.op = "delete_task"
    /\ response.status = 200
    /\ BodyRead
    /\ response.body = <<"ws", "ws">>
    /\ result.ok

\* ---------------------------------------------------------------- C6
EmptyPostParseError ==
    Err(Error("ParseError", Message("Failed to deserialize empty POST response: {}", <<>>)))
PostAnsweredEmpty ==
    /\ Answered
    /\ request.method = "POST"
    /\ Success2xx
    /\ BodyRead
    /\ (response.status = 204 \/ Blank(response.body))

\* C6 as stated (taking the body to have been read): every POST of the client
\* (create_*, update_*, complete_task, reopen_task) answered 2xx with status
\* 204 or an empty or whitespace-only body returns success.
C6_EveryEmptyPostIsSuccess == PostAnsweredEmpty => result.ok

\* C6 amended: a POST answered 2xx, its body read, with status 204 or an empty
\* or whitespace-only body is deserialized from "null": complete_task and
\* reopen_task return the no-value success; create_* and update_*, whose
\* result is a resource record, return ParseError.
C6_EmptyPostIsNullResult ==
    PostAnsweredEmpty
        => IF call.op \in {"complete_task", "reopen_task"}
           THEN result = Ok("unit")
           ELSE result = EmptyPostParseError

C6_Witness ==
    /\ PostAnsweredEmpty
    /\ call.op = "create_task"
    /\ response.status = 204
    /\ response.body = <<"obj">>
    /\ result = EmptyPostParseError

\* ---------------------------------------------------------------- C7
CloseOrReopen ==
    /\ call.op \in {"complete_task", "reopen_task"}
    /\ pc \in {"awaiting", "done"}
PostsNoBodyToTaskAction ==
    /\ request.method = "POST"
    /\ request.body = None
    /\ request.url = TODOIST_API_BASE \o <<"/tasks", "/">> \o call.id[1]
                     \o (IF call.op = "complete_task" THEN <<"/close">> ELSE <<"/reopen">>)

\* C7 as stated: complete_task and reopen_task POST no body to
\* /tasks/{id}/close and /tasks/{id}/reopen, and every 204 response yields the
\* no-value success.
C7_Every204IsSuccess ==
    CloseOrReopen
        => /\ PostsNoBodyToTaskAction
           /\ (Answered /\ response.status = 204) => result = Ok("unit")

\* C7 amended: complete_task and reopen_task POST no body to
\* /tasks/{id}/close and /tasks/{id}/reopen, and a 204 response whose body is
\* read, whatever its text, yields the no-value success; when reading the body
\* fails the call returns NetworkError.
C7_CloseReopen204 ==
    CloseOrReopen
        => /\ PostsNoBodyToTaskAction
           /\ (Answered /\ response.status = 204 /\ BodyRead) => result = Ok("unit")
           /\ (Answered /\ response.status = 204 /\ ~BodyRead)
                => result.err.variant = "NetworkError"

C7_Witness ==
    /\ Answered
    /\ call.op = "complete_task"
    /\ response.status = 204
    /\ BodyRead
    /\ response.body = <<"junk", "junk">>
    /\ result = Ok("unit")

\* ---------------------------------------------------------------- C8
\* The path of the requested URL: what follows the base, up to the query string.
RECURSIVE UpToQuery(_)
UpToQuery(text) ==
    IF text = <<>> \/ Head(text) = "?" THEN <<>> ELSE <<Head(text)>> \o UpToQuery(Tail(text))
RequestedPath == UpToQuery(SubSeq(request.url, Len(TODOIST_API_BASE) + 1, Len(request.url)))

\* C8: a GET answered 2xx with an empty or whitespace-only body fails with
\* EmptyResponse whose endpoint field is the requested endpoint path, for all
\* GET operations, filtered lists and get_tasks_for_project included.
C8_EmptyGetNamesEndpointPath ==
    (Answered /\ request.method = "GET" /\ Success2xx /\ BodyRead /\ Blank(response.body))
        => /\ result.err.variant = "EmptyResponse"
           /\ result.err.endpoint = Some(RequestedPath)

\* ---------------------------------------------------------------- C9
InvalidBodyFor2xx ==
    /\ Answered
    /\ Success2xx
    /\ BodyRead
    /\ ~Blank(response.body)
    /\ \/ request.T = "unit" /\ TrimEnd(TrimStart(response.body)) # <<"null">>
       \/ request.T = "object" /\ TrimEnd(TrimStart(response.body)) # <<"obj">>
       \/ request.T = "array" /\ TrimEnd(TrimStart(response.body)) # <<"arr">>

\* C9 as stated: any request answered 2xx with a non-empty body that is not
\* valid JSON for the expected result type fails with ParseError.
C9_InvalidBodyIsParseError ==
    InvalidBodyFor2xx => (~result.ok /\ result.err.variant = "ParseError")

\* C9 amended: a request answered 2xx with a non-empty body that is not valid
\* JSON for the expected result type fails with ParseError, except a POST
\* answered 204, whose body is not parsed: complete_task and reopen_task then
\* return the no-value success.
C9_InvalidBodyIsParseErrorUnless204Post ==
    InvalidBodyFor2xx
        => IF request.method = "POST" /\ response.status = 204 /\ request.T = "unit"
           THEN result = Ok("unit")
           ELSE ~result.ok /\ result.err.variant = "ParseError"

C9_Witness ==
    /\ InvalidBodyFor2xx
    /\ call.op = "get_tasks"
    /\ response.status = 200
    /\ response.body = <<"null">>
    /\ result.err.variant = "ParseError"

\* ---------------------------------------------------------------- C10
\* C10: every public method call performs exactly one outbound HTTP request:
\* one once the call has reached its await, still one when it has returned
\* (whatever the outcome), and none is added after the first.
C10_ExactlyOneRequest ==
    /\ pc = "idle" => sent = 0
    /\ pc \in {"awaiting", "done"} => sent = 1

C10_Witness ==
    /\ pc = "done"
    /\ sent = 1
    /\ result.err.variant \in {"RateLimited", "ServerError", "NetworkError"}

\* ---------------------------------------------------------------- C11
CreateOps == {"create_task", "create_project", "create_label", "create_section", "create_comment"}

\* The fields of the argument struct of `op` that are not an Option.
MandatoryOf(op) ==
    CASE op \in {"create_task", "create_comment", "update_comment"} -> {"content"}
      [] op \in {"create_project", "create_label", "update_section"} -> {"name"}
      [] op = "create_section" -> {"name", "project_id"}
      [] OTHER -> {}

FieldsSet(op, args) == {f \in DOMAIN args : f \notin MandatoryOf(op) /\ args[f] # None}

\* C11: for every create and update operation the keys of the JSON body sent
\* are exactly the mandatory fields plus the optional fields the caller set,
\* each key carrying the caller's value; an absent optional field gives no key
\* (so no key with a null value).
C11_BodyKeysAreMandatoryPlusSet ==
    (pc \in {"awaiting", "done"} /\ call.op \in CreateOps \cup UpdateOps)
        => /\ request.body # None
           /\ DOMAIN request.body[1] = MandatoryOf(call.op) \cup FieldsSet(call.op, call.args)
           /\ \A k \in MandatoryOf(call.op) : request.body[1][k] = call.args[k]
           /\ \A k \in FieldsSet(call.op, call.args) : call.args[k] = Some(request.body[1][k])

C11_Witness ==
    /\ pc = "awaiting"
    /\ call.op = "create_task"
    /\ FieldsSet(call.op, call.args) = {"priority", "due_string"}
    /\ DOMAIN request.body[1] = {"content", "priority", "due_string"}
    /\ call.args.description = None

\* ---------------------------------------------------------------- C12
FilteredOps ==
    {"get_tasks_by_filter", "get_projects_filtered", "get_labels_filtered",
     "get_sections_filtered", "get_comments_filtered"}

\* The order of the filter fields that the claim gives for each operation.
FilterOrder(op) ==
    CASE op = "get_tasks_by_filter" -> <<"query", "lang", "limit", "cursor">>
      [] op = "get_sections_filtered" -> <<"project_id", "limit", "cursor">>
      [] op = "get_comments_filtered" -> <<"task_id", "project_id", "limit", "cursor">>
      [] OTHER -> <<"limit", "cursor">>

\* The text of a filter field that is present: query is a String, limit an i32.
IsPresent(args, f) == f = "query" \/ args[f] # None
TextOf(args, f) ==
    IF f = "query" THEN args.query
    ELSE IF f = "limit" THEN to_string(args.limit[1])
    ELSE args[f][1]

RECURSIVE PairsFor(_, _)
PairsFor(args, fields) ==
    IF fields = <<>> THEN <<>>
    ELSE (IF IsPresent(args, Head(fields))
          THEN <<[k |-> <<Head(fields)>>, v |-> TextOf(args, Head(fields))]>>
          ELSE <<>>)
         \o PairsFor(args, Tail(fields))

\* The query string of a URL as a server reads it: what follows the first "?",
\* cut at every "&", each part cut at its first "=".
RECURSIVE After(_, _)
After(text, sep) ==
    IF text = <<>> THEN <<>>
    ELSE IF Head(text) = sep THEN Tail(text) ELSE After(Tail(text), sep)
RECURSIVE Before(_, _)
Before(text, sep) ==
    IF text = <<>> \/ Head(text) = sep THEN <<>>
    ELSE <<Head(text)>> \o Before(Tail(text), sep)
Has(text, sep) == \E i \in 1..Len(text) : text[i] = sep
RECURSIVE Split(_, _)
Split(text, sep) ==
    IF ~Has(text, sep) THEN <<text>>
    ELSE <<Before(text, sep)>> \o Split(After(text, sep), sep)
PairOf(part) == [k |-> Before(part, "="), v |-> After(part, "=")]
QueryPairs(url) ==
    IF ~Has(url, "?") THEN <<>>
    ELSE LET parts == Split(After(url, "?"), "&")
         IN [i \in 1..Len(parts) |-> PairOf(parts[i])]

\* C12: for every filtered-list operation the query string of the request has
\* one key=value pair for each filter field that is present and none for an
\* absent one, in the fixed order of the operation.
C12_OnePairPerPresentField ==
    (pc \in {"awaiting", "done"} /\ call.op \in FilteredOps)
        => QueryPairs(request.url) = PairsFor(call.args, FilterOrder(call.op))

\* The same for values that hold no "&": there the claim describes the code.
C12_OnePairPerPresentFieldWithoutAmpersand ==
    (pc \in {"awaiting", "done"} /\ call.op \in FilteredOps
     /\ \A f \in DOMAIN call.args : call.args[f] = None \/ f = "limit"
            \/ ~Has(IF f = "query" THEN call.args[f] ELSE call.args[f][1], "&"))
        => QueryPairs(request.url) = PairsFor(call.args, FilterOrder(call.op))

\* The example of the claim: query "today" and limit 10 give query=today&limit=10.
C12_Example ==
    /\ pc = "awaiting"
    /\ call.op = "get_tasks_by_filter"
    /\ call.args = [query |-> <<"today">>, lang |-> None, limit |-> Some(10), cursor |-> None]
    /\ request.url = TODOIST_API_BASE \o <<"/tasks", "?", "query", "=", "today", "&", "limit", "=", "1", "0">>

\* ---------------------------------------------------------------- C13
HeadersNamed(name) == {h \in request.headers : h[1] = name}

\* C13: every request sent (GET, POST and DELETE, for every resource method)
\* carries exactly the header Authorization: Bearer <token> with the token of
\* the client, which is the one given at construction because it never
\* changes, and every request that has a JSON body carries
\* Content-Type: application/json.
C13_BearerTokenOnEveryRequest ==
    /\ [](pc \in {"awaiting", "done"}
            => /\ HeadersNamed("Authorization") = {<<"Authorization", <<"Bearer ">> \o api_token>>}
               /\ request.body # None
                    => HeadersNamed("Content-Type") = {<<"Content-Type", <<"application/json">>>>})
    /\ [][api_token' = api_token]_vars

C13_Witness ==
    /\ pc = "awaiting"
    /\ request.method = "POST"
    /\ request.body # None
    /\ api_token = <<"0123456789abcdef">>
    /\ <<"Authorization", <<"Bearer ", "0123456789abcdef">>>> \in request.headers
    /\ <<"Content-Type", <<"application/json">>>> \in request.headers

\* ---------------------------------------------------------------- C14
\* The call has returned because .send() failed (no response was received).
SendFailed == pc = "done" /\ response = NoResponse

\* C14: a send that fails at the transport level, by a connection failure or
\* by the timeout when the send has been pending for 10 seconds, makes the call
\* return NetworkError, and the request is not sent again: a pending send never
\* outlives the timeout, at the timeout the only step is the return of
\* NetworkError, and no step of a pending call sends.
C14_SendFailureIsNetworkError ==
    /\ [](SendFailed => (~result.ok /\ result.err.variant = "NetworkError" /\ sent = 1))
    /\ [](pc = "awaiting" => elapsed <= TIMEOUT_SECS)
    /\ [][(pc = "awaiting" /\ elapsed = TIMEOUT_SECS)
            => /\ pc' = "done"
               /\ response' = NoResponse
               /\ result'.err.variant = "NetworkError"
               /\ result'.err.message.text = <<"operation timed out">>]_vars
    /\ [][pc = "awaiting" => sent' = sent]_vars

C14_Witness ==
    /\ SendFailed
    /\ result.err.variant = "NetworkError"
    /\ result.err.message = Message("Failed to send request: {}", <<"operation timed out">>)
    /\ sent = 1

\* ---------------------------------------------------------------- C15
DeleteOps == {"delete_project", "delete_task", "delete_label", "delete_section", "delete_comment"}
WithoutWhitespace(text) == SelectSeq(text, LAMBDA piece : piece # "ws")

\* C15 as stated: every delete operation returns a no-value success whenever
\* the DELETE is answered with a 2xx status, whatever the response body is.
C15_DeleteAny2xxIsSuccess ==
    (Answered /\ call.op \in DeleteOps /\ Success2xx) => result = Ok("unit")

\* C15, amended: a delete operation answered 2xx returns a no-value success
\* when the body, once read, is empty, whitespace-only or the JSON null; with
\* any other body it fails with ParseError, and with NetworkError when the
\* body cannot be read.
C15_DeleteSuccessByBody ==
    (Answered /\ call.op \in DeleteOps /\ Success2xx)
        => /\ request.method = "DELETE"
           /\ IF ~BodyRead THEN result.err.variant = "NetworkError"
              ELSE IF WithoutWhitespace(response.body) \in {<<>>, <<"null">>} THEN result = Ok("unit")
              ELSE ~result.ok /\ result.err.variant = "ParseError"

C15_Witness ==
    /\ Answered
    /\ call.op = "delete_section"
    /\ response.status = 200
    /\ BodyRead
    /\ response.body = <<"obj">>
    /\ result.err.variant = "ParseError"

\* ---------------------------------------------------------------- C16
\* has_updates() of a value of `type` has returned.
Reported(type) == pc = "done" /\ call.op = "has_updates" /\ call.id = Some(<<type>>)
\* The optional fields of an argument struct that are set.
OptionalSet(mandatory, args) == {f \in DOMAIN args \ mandatory : args[f] # None}

\* C16: for every Update*Args type has_updates() returns true if and only if
\* at least one optional field of the value is set, and the argument type of
\* every update operation provides has_updates().
C16_EveryUpdateArgsReportsFieldsSet ==
    /\ \A type \in {"UpdateTaskArgs", "UpdateProjectArgs", "UpdateLabelArgs"} :
            Reported(type) => result = Ok(OptionalSet({}, call.args) # {})
    /\ Reported("UpdateCommentArgs") => result = Ok(OptionalSet({"content"}, call.args) # {})
    /\ (pc \in {"awaiting", "done"} /\ call.op \in UpdateOps)
            => ArgsTypeOf(call.op) \in HasUpdatesImpls

\* The part of C16 that the code satisfies: has_updates() of UpdateTaskArgs
\* (13 fields), UpdateProjectArgs and UpdateLabelArgs (4 fields each) is true
\* if and only if at least one field is set.
C16_HasUpdatesIffFieldSet ==
    \A type \in {"UpdateTaskArgs", "UpdateProjectArgs", "UpdateLabelArgs"} :
        Reported(type)
            => /\ result = Ok(OptionalSet({}, call.args) # {})
               /\ Cardinality(DOMAIN call.args) = IF type = "UpdateTaskArgs" THEN 13 ELSE 4

C16_HasUpdatesReached ==
    /\ Reported("UpdateTaskArgs")
    /\ OptionalSet({}, call.args) = {"due_lang"}
    /\ result = Ok(TRUE)

\* ---------------------------------------------------------------- C17
\* Both tasks have a call that has returned after a response was classified.
BothAnswered == Answered /\ other.pc = "done" /\ other.response # NoResponse

\* C17: for any interleaving of the calls of two tasks on one client, the
\* token never changes (the base URL is the constant TODOIST_API_BASE), the
\* call of the other task changes only by being run, never by a step of this
\* call, and two calls with the same arguments and the same response have the
\* same result, whatever the other task did in between.
C17_CallsAreIndependent ==
    /\ [][api_token' = api_token]_vars
    /\ [][other' # other
            => /\ other' = Suspended(pc, call, request, sent, elapsed, response, result)
               /\ <<pc', call', request', sent', response', result'>>
                    = <<other.pc, other.call, other.request, other.sent, other.response, other.result>>]_vars
    /\ []((BothAnswered /\ call = other.call /\ response = other.response)
            => (request = other.request /\ result = other.result))

C17_Witness ==
    /\ BothAnswered
    /\ call = other.call
    /\ call.op = "get_task"
    /\ response = other.response
    /\ response.status = 404
    /\ result = other.result
    /\ result.err.variant = "NotFound"

\* ---------------------------------------------------------------- C18
\* The variant a call ended in: success, or the variant of its error.
VariantOf(r) == IF r.ok THEN "Ok" ELSE r.err.variant

\* The two calls got the same status and the same body (read, or not
\* readable) for the same HTTP method.
SameResponseAndMethod ==
    /\ BothAnswered
    /\ response.status = other.response.status
    /\ response.body = other.response.body
    /\ response.readable = other.response.readable
    /\ request.method = other.request.method

\* C18 as stated: two responses with the same status, body and HTTP method are
\* classified into the same variant, whichever resource method issued the
\* request.
C18_VariantByStatusBodyMethod ==
    SameResponseAndMethod => VariantOf(result) = VariantOf(other.result)

\* C18, amended: two responses with the same status, body and HTTP method are
\* classified into the same variant whenever the resource methods that issued
\* the requests expect the same result type; the endpoint, the arguments and
\* the resource play no part.
C18_VariantByStatusBodyMethodAndType ==
    (SameResponseAndMethod /\ request.T = other.request.T)
        => /\ VariantOf(result) = VariantOf(other.result)
           /\ result.ok = other.result.ok
           /\ result.value = other.result.value
           /\ result.err.message = other.result.err.message

C18_Witness ==
    /\ SameResponseAndMethod
    /\ call.op = "delete_task"
    /\ other.call.op = "delete_project"
    /\ response.status = 200
    /\ response.body = <<>>
    /\ result = Ok("unit")
    /\ other.result = Ok("unit")

\* ---------------------------------------------------------------- C19
ErrorVariants ==
    {"RateLimited", "AuthenticationError", "AuthorizationError", "NotFound", "ValidationError",
     "ServerError", "NetworkError", "ParseError", "EmptyResponse", "Generic"}
StatusClassified ==
    {"AuthenticationError", "AuthorizationError", "NotFound", "RateLimited", "ValidationError",
     "ServerError", "Generic"}
IsSuccessValue == result.ok /\ result.value = request.T /\ result.err = NoError
IsErrorOfClosedSet == ~result.ok /\ result.value = "-" /\ result.err.variant \in ErrorVariants

\* C19: a call that has returned has exactly one outcome, a success value or
\* one variant of the closed error set; a non-2xx response never yields a
\* success value, and a 2xx response never yields a status-classified error.
C19_ExactlyOneOutcome ==
    pc = "done"
        => /\ IsSuccessValue \/ IsErrorOfClosedSet
           /\ ~(IsSuccessValue /\ IsErrorOfClosedSet)
           /\ (Answered /\ ~Success2xx) => (IsErrorOfClosedSet /\ result.err.variant \in StatusClassified)
           /\ (Answered /\ Success2xx)
                => (IsSuccessValue \/ result.err.variant \in ErrorVariants \ StatusClassified)

C19_Witness ==
    /\ Answered
    /\ response.status = 300
    /\ response.body = <<"obj">>
    /\ request.T = "object"
    /\ result.err.variant = "Generic"

\* ---------------------------------------------------------------- C20
\* C20: when the response body cannot be read, a 2xx response makes the call
\* return NetworkError, and a non-2xx response still gives the error variant
\* selected by the status code, with the synthetic unknown-error message in
\* place of the body.
C20_UnreadableBody ==
    (Answered /\ ~BodyRead)
        => IF Success2xx
           THEN /\ ~result.ok
                /\ result.err.variant = "NetworkError"
                /\ result.err.message = Message("Failed to read response body: {}", <<>>)
           ELSE /\ ~result.ok
                /\ result.err.variant = VariantFor(response.status)
                /\ result.err.message
                     = Message("Unknown error occurred (HTTP {})", <<ToString(response.status)>>)

C20_Witness ==
    /\ Answered
    /\ ~BodyRead
    /\ response.status = 404
    /\ result.err.variant = "NotFound"
    /\ result.err.message = Message("Unknown error occurred (HTTP {})", <<"404">>)

\* ---------------------------------------------------------------- C21
\* The call has returned an error.
Failed == pc = "done" /\ ~result.ok

\* C21: status_code() of the error a call returns is the HTTP status for
\* ServerError and Generic and None for every other variant, so None for
\* every error made from a 400, 401, 403, 404 or 429 response and for
\* NetworkError, ParseError and EmptyResponse; retry_after() is None for every
\* variant other than RateLimited.
C21_AccessorsByVariant ==
    Failed
        => /\ result.err.variant \in {"ServerError", "Generic"}
                => (Answered /\ status_code(result.err) = Some(response.status))
           /\ result.err.variant \notin {"ServerError", "Generic"}
                => status_code(result.err) = None
           /\ (Answered /\ response.status \in {400, 401, 403, 404, 429})
                => status_code(result.err) = None
           /\ result.err.variant \in {"NetworkError", "ParseError", "EmptyResponse"}
                => status_code(result.err) = None
           /\ result.err.variant # "RateLimited" => retry_after(result.err) = None

C21_Witness ==
    /\ Failed
    /\ Answered
    /\ response.status = 429
    /\ result.err.variant = "RateLimited"
    /\ status_code(result.err) = None
    /\ retry_after(result.err) = Some(<<3, 0>>)

\* ---------------------------------------------------------------- C22
\* The unfiltered list call of the resource of a filtered one.
UnfilteredOf(op) ==
    CASE op = "get_projects_filtered" -> "get_projects"
      [] op = "get_labels_filtered" -> "get_labels"
      [] op = "get_sections_filtered" -> "get_sections"
      [] op = "get_comments_filtered" -> "get_comments"
      [] OTHER -> "-"

\* This task has sent a filtered list call with every filter field absent and
\* the other task the unfiltered list call of the same resource.
AbsentFilterBesideUnfiltered ==
    /\ pc \in {"awaiting", "done"}
    /\ other.pc \in {"awaiting", "done"}
    /\ UnfilteredOf(call.op) # "-"
    /\ NoFieldsSet(call.args)
    /\ other.call.op = UnfilteredOf(call.op)

\* C22: a filtered list call whose filter has every optional field absent
\* sends the same request as the unfiltered list call of the resource, with a
\* URL that has no "?" and no query string, and the same response to both is
\* classified into the same result.
C22_AbsentFilterIsUnfiltered ==
    AbsentFilterBesideUnfiltered
        => /\ request = other.request
           /\ ~Has(request.url, "?")
           /\ request.url = TODOIST_API_BASE \o request.endpoint
           /\ (BothAnswered /\ response = other.response) => result = other.result

C22_Witness ==
    /\ AbsentFilterBesideUnfiltered
    /\ BothAnswered
    /\ call.op = "get_comments_filtered"
    /\ request.url = TODOIST_API_BASE \o <<"/comments">>
    /\ response = other.response
    /\ response.status = 200
    /\ response.body = <<"arr">>
    /\ result = Ok("array")
    /\ other.result = Ok("array")

====
